---- MODULE Spec2Model ----
(***************************************************************************)
(* A model of the interactive shell of src/main.rs: the read/dispatch loop *)
(* (run_shell), the builtin registry and its five handlers, the PATH       *)
(* resolver (find_executable_in_path) and the launcher                     *)
(* (execute_external_program).                                             *)
(*                                                                         *)
(* Text is modelled at character level: a string is a sequence of          *)
(* one-character strings, so that tokenising, PATH splitting, path joining,*)
(* path lookup and integer parsing are computed as the code computes them. *)
(* A printed line is the pair (format string, arguments) of the println!   *)
(* call that printed it.                                                   *)
(***************************************************************************)
EXTENDS Integers, Sequences, FiniteSets, TLC

VARIABLES
    pc,         \* "read": run_shell is at read_command_line; "wait": blocked
                \* in cmd.status(); "exited": the process has terminated
    exit_code,  \* <<>> while running, <<n>> once the process ended with n
    cwd,        \* the process working directory (a directory of the tree)
    PATH,       \* the value of the PATH environment variable
    fs,         \* the file system: node -> [kind, mode]
    stdout,     \* the lines printed by the latest loop iteration
    last,       \* what the latest loop iteration did
    child       \* <<>>, or <<c>> while the spawned child c is running

vars == <<pc, exit_code, cwd, PATH, fs, stdout, last, child>>

(***************************************************************************)
(* Bounds of the model.                                                    *)
(***************************************************************************)
MaxArgs == 2

(***************************************************************************)
(* Strings.                                                                *)
(***************************************************************************)
RECURSIVE Concat(_)
Concat(ss) ==
    IF ss = <<>> THEN <<>> ELSE Head(ss) \o Concat(Tail(ss))

\* [T]::join(sep)
RECURSIVE join(_, _)
join(ss, sep) ==
    IF ss = <<>> THEN <<>>
    ELSE IF Len(ss) = 1 THEN ss[1]
    ELSE ss[1] \o sep \o join(Tail(ss), sep)

\* str::split(d): the pieces between the occurrences of d, empty ones kept
RECURSIVE split(_, _)
split(s, d) ==
    IF \A i \in 1..Len(s) : s[i] # d THEN <<s>>
    ELSE LET i == CHOOSE k \in 1..Len(s) :
                      s[k] = d /\ \A j \in 1..(k - 1) : s[j] # d
         IN  <<SubSeq(s, 1, i - 1)>> \o split(SubSeq(s, i + 1, Len(s)), d)

is_whitespace(c) == c \in {" ", "\t", "\n", "\r"}

\* str::trim
RECURSIVE trim(_)
trim(s) ==
    IF s = <<>> THEN s
    ELSE IF is_whitespace(s[1]) THEN trim(Tail(s))
    ELSE IF is_whitespace(s[Len(s)]) THEN trim(SubSeq(s, 1, Len(s) - 1))
    ELSE s

\* str::split_whitespace: the maximal runs of non-whitespace characters
RECURSIVE split_whitespace(_)
split_whitespace(s) ==
    IF s = <<>> THEN <<>>
    ELSE IF is_whitespace(s[1]) THEN split_whitespace(Tail(s))
    ELSE LET n == IF \E k \in 1..Len(s) : is_whitespace(s[k])
                  THEN (CHOOSE k \in 1..Len(s) :
                            /\ is_whitespace(s[k])
                            /\ \A j \in 1..(k - 1) : ~is_whitespace(s[j])) - 1
                  ELSE Len(s)
         IN  <<SubSeq(s, 1, n)>> \o split_whitespace(SubSeq(s, n + 1, Len(s)))

parse_command(command) == split_whitespace(trim(command))

(***************************************************************************)
(* str::parse::<i32>: an optional sign, then decimal digits, accumulated   *)
(* with checked arithmetic in 32 bits.  The result is <<>> (Err) or <<n>>. *)
(***************************************************************************)
I32Max == 2147483647
I32Min == (-I32Max) - 1

Digits == <<"0", "1", "2", "3", "4", "5", "6", "7", "8", "9">>
IsDigit(c) == \E d \in 1..10 : Digits[d] = c
DigitVal(c) == (CHOOSE d \in 1..10 : Digits[d] = c) - 1

\* the positive branch: result = result * 10 + digit, or PosOverflow
RECURSIVE parse_pos(_, _)
parse_pos(s, result) ==
    IF s = <<>> THEN <<result>>
    ELSE IF ~IsDigit(s[1]) THEN <<>>
    ELSE IF result > (I32Max - DigitVal(s[1])) \div 10 THEN <<>>
    ELSE parse_pos(Tail(s), result * 10 + DigitVal(s[1]))

\* the negative branch: result = result * 10 - digit, or NegOverflow
RECURSIVE parse_neg(_, _)
parse_neg(s, result) ==
    IF s = <<>> THEN <<result>>
    ELSE IF ~IsDigit(s[1]) THEN <<>>
    ELSE IF result < (I32Min + DigitVal(s[1]) + 9) \div 10 THEN <<>>
    ELSE parse_neg(Tail(s), result * 10 - DigitVal(s[1]))

parse_i32(s) ==
    IF s = <<>> THEN <<>>
    ELSE IF s = <<"+">> \/ s = <<"-">> THEN <<>>
    ELSE IF s[1] = "+" THEN parse_pos(Tail(s), 0)
    ELSE IF s[1] = "-" THEN parse_neg(Tail(s), 0)
    ELSE parse_pos(s, 0)

(***************************************************************************)
(* The file system.  A node is its canonical absolute path, a sequence of  *)
(* components; fs gives each node of the tree a kind ("dir", "file" or     *)
(* "absent") and its permission bits.  The process runs as the owner of    *)
(* every node and is not root.                                             *)
(***************************************************************************)
Root == <<>>

Kind(n) == IF n \in DOMAIN fs THEN fs[n].kind ELSE "absent"

Parent(n) == IF n = Root THEN Root ELSE SubSeq(n, 1, Len(n) - 1)

\* One step of path lookup from directory cur.  A removed working directory
\* still answers "." and ".." but holds no entries.
RECURSIVE Walk(_, _)
Walk(comps, cur) ==
    IF comps = <<>> THEN <<cur>>
    ELSE LET c == Head(comps) IN
         IF c = <<>> \/ c = <<".">> THEN
             IF Kind(cur) = "file" THEN <<>> ELSE Walk(Tail(comps), cur)
         ELSE IF c = <<".", ".">> THEN
             IF Kind(cur) = "file" THEN <<>> ELSE Walk(Tail(comps), Parent(cur))
         ELSE IF Kind(cur) = "dir" /\ Kind(Append(cur, c)) # "absent"
              THEN Walk(Tail(comps), Append(cur, c))
              ELSE <<>>

\* Path lookup as stat(2) and chdir(2) do it: <<>> (an error) or <<node>>.
Lookup(path, from) ==
    IF path = <<>> THEN <<>>
    ELSE Walk(split(path, "/"), IF path[1] = "/" THEN Root ELSE from)

\* The absolute path of a node, as getcwd(2) gives it.
AbsolutePath(n) ==
    IF n = Root THEN <<"/">> ELSE Concat([i \in 1..Len(n) |-> <<"/">> \o n[i]])

\* mode & mask # 0 for the three execute bits, taken one octal digit at a time
ExecMask == 73
RECURSIVE AndNonZero(_, _)
AndNonZero(mode, mask) ==
    IF mode = 0 \/ mask = 0 THEN FALSE
    ELSE \/ (mode % 2 = 1 /\ mask % 2 = 1)
         \/ AndNonZero(mode \div 2, mask \div 2)

\* Path::new(dir).join(command)
path_join(dir, command) ==
    IF command # <<>> /\ command[1] = "/" THEN command
    ELSE IF dir = <<>> THEN command
    ELSE IF dir[Len(dir)] = "/" THEN dir \o command
    ELSE dir \o <<"/">> \o command

\* path.exists() && fs::metadata(&path).is_ok()
path_exists(path) == Lookup(path, cwd) # <<>>

\* metadata.permissions().mode() & 0o111 != 0
has_execute_bit(path) ==
    AndNonZero(fs[Lookup(path, cwd)[1]].mode, ExecMask)

\* scan_path without the permission check: the first candidate that exists
RECURSIVE scan_path_first_existing(_, _)
scan_path_first_existing(dirs, command) ==
    IF dirs = <<>> THEN <<>>
    ELSE LET path == path_join(Head(dirs), command) IN
         IF path_exists(path)
         THEN <<path>>
         ELSE scan_path_first_existing(Tail(dirs), command)

\* The loop over the PATH entries: the first candidate that exists and has
\* an execute bit, Some(path) as <<path>>, None as <<>>.
RECURSIVE scan_path(_, _)
scan_path(dirs, command) ==
    IF dirs = <<>> THEN <<>>
    ELSE LET path == path_join(Head(dirs), command) IN
         IF path_exists(path) /\ has_execute_bit(path)
         THEN <<path>>
         ELSE scan_path(Tail(dirs), command)

\* std::env::var("PATH").unwrap_or_default()
path_var == IF PATH = <<>> THEN <<>> ELSE PATH[1]

find_executable_in_path(command) == scan_path(split(path_var, ":"), command)

(***************************************************************************)
(* Command::new(program).status(): the operating system's side of a spawn. *)
(* A program name holding a "/" names the file to run; a bare name is      *)
(* searched by the system in the directories of PATH (an empty entry is    *)
(* the working directory; the system's default directories when PATH is    *)
(* unset), skipping the candidates it cannot execute.  A file can be run   *)
(* when it is a regular file whose owner execute bit is set.               *)
(***************************************************************************)
OwnerExecMask == 64

ENOENT == <<"E", "N", "O", "E", "N", "T">>
EACCES == <<"E", "A", "C", "C", "E", "S">>

DefaultSearchPath == << <<"/", "b", "i", "n">>,
                        <<"/", "u", "s", "r", "/", "b", "i", "n">> >>

\* execve(2) of one path: <<>> with the error in err, or <<node>>
exec_file(path) ==
    LET n == Lookup(path, cwd) IN
    IF n = <<>> THEN [image |-> <<>>, err |-> ENOENT]
    ELSE IF Kind(n[1]) # "file" \/ ~AndNonZero(fs[n[1]].mode, OwnerExecMask)
    THEN [image |-> <<>>, err |-> EACCES]
    ELSE [image |-> n, err |-> <<>>]

RECURSIVE exec_search(_, _, _)
exec_search(dirs, program, err) ==
    IF dirs = <<>> THEN [image |-> <<>>, err |-> err]
    ELSE LET path == IF Head(dirs) = <<>> THEN program
                     ELSE Head(dirs) \o <<"/">> \o program
             r == exec_file(path)
         IN  IF r.image # <<>> THEN r
             ELSE exec_search(Tail(dirs), program,
                              IF r.err = EACCES THEN EACCES ELSE err)

cmd_status(program) ==
    IF \E i \in 1..Len(program) : program[i] = "/"
    THEN exec_file(program)
    ELSE exec_search(IF PATH = <<>> THEN DefaultSearchPath
                     ELSE split(PATH[1], ":"),
                     program, ENOENT)

(***************************************************************************)
(* The names of the model's world: commands, arguments, directories.       *)
(***************************************************************************)
echo == <<"e", "c", "h", "o">>
exit == <<"e", "x", "i", "t">>
type == <<"t", "y", "p", "e">>
pwd == <<"p", "w", "d">>
cd == <<"c", "d">>

\* a byte sequence that is no valid UTF-8, as one pseudo-character
InvalidByte == "0xFF"
is_utf8(s) == \A i \in 1..Len(s) : s[i] # InvalidByte

\* the tree: /, /a, /a/b, /p, /q, /<invalid>, and the files /p/f, /q/f, /p/echo
Nodes ==
    { Root, << <<"a">> >>, << <<"a">>, <<"b">> >>, << <<"p">> >>, << <<"q">> >>,
      << <<InvalidByte>> >>,
      << <<"p">>, <<"f">> >>, << <<"q">>, <<"f">> >>, << <<"p">>, echo >> }

Absent == [kind |-> "absent", mode |-> 0]
Dir(mode) == [kind |-> "dir", mode |-> mode]
File(mode) == [kind |-> "file", mode |-> mode]

\* what other processes may make of a node: 493 = 0o755, 420 = 0o644
Variants(n) ==
    IF n = << <<"p">>, <<"f">> >> THEN {File(420), File(493)}
    ELSE IF n = << <<"q">>, <<"f">> >> THEN {Absent, File(493), Dir(493)}
    ELSE IF n = << <<"p">>, echo >> THEN {File(493)}
    ELSE IF n = << <<"a">>, <<"b">> >> THEN {Dir(493), Absent}
    ELSE {Dir(493)}

\* PATH is unset, or "/p/:/q", or ":/p"
PathValues ==
    { <<>>,
      << <<"/", "p", "/", ":", "/", "q">> >>,
      << <<":", "/", "p">> >> }

(***************************************************************************)
(* What one handler does: the lines it prints, the working directory it    *)
(* leaves, the code it ends the process with, the names it resolved, the   *)
(* command it tried to spawn and the child that started.                   *)
(***************************************************************************)
Line(fmt, args) == [fmt |-> fmt, args |-> args]

Effect(handler) ==
    [handler |-> handler, out |-> <<>>, cwd |-> cwd, exit |-> <<>>,
     resolved |-> <<>>, spawn |-> <<>>, child |-> <<>>]

register_builtins ==
    (echo :> "echo_command") @@ (exit :> "exit_command") @@
    (type :> "type_command") @@ (pwd :> "pwd_command") @@ (cd :> "cd_command")

echo_command(args) ==
    [Effect("echo_command") EXCEPT !.out =
        IF Len(args) > 1
        THEN <<Line("{}", <<join(Tail(args), <<" ">>)>>)>>
        ELSE <<Line("", <<>>)>>]

\* exit_command with unwrap_or(0): an unparsable code exits with 0
exit_command_default_zero(args) ==
    LET code == IF Len(args) > 1
                THEN IF parse_i32(args[2]) # <<>> THEN parse_i32(args[2])[1]
                     ELSE 0
                ELSE 0
    IN  [Effect("exit_command") EXCEPT !.exit = <<code>>]

exit_command(args) ==
    LET code == IF Len(args) > 1
                THEN IF parse_i32(args[2]) # <<>> THEN parse_i32(args[2])[1]
                     ELSE 1
                ELSE 0
    IN  [Effect("exit_command") EXCEPT !.exit = <<code>>]

\* std::env::current_dir(): getcwd(2) fails once the directory was removed
current_dir == IF Kind(cwd) = "dir" THEN <<AbsolutePath(cwd)>> ELSE <<>>

pwd_command(args) ==
    [Effect("pwd_command") EXCEPT !.out =
        IF current_dir # <<>>
        THEN IF is_utf8(current_dir[1])
             THEN <<Line("{}", <<current_dir[1]>>)>>
             ELSE <<Line("Error: current directory path is not valid UTF-8",
                         <<>>)>>
        ELSE <<Line("pwd: error retrieving current directory: {}", <<ENOENT>>)>>]

\* set_current_dir that takes every path from the root
set_current_dir_from_root(path) ==
    LET n == Lookup(path, Root) IN
    IF n # <<>> /\ (Kind(n[1]) = "dir" \/ n[1] = cwd) THEN n ELSE <<>>

\* std::env::set_current_dir(path): chdir(2); <<>> (Err) or <<node>>
set_current_dir(path) ==
    LET n == Lookup(path, cwd) IN
    IF n # <<>> /\ (Kind(n[1]) = "dir" \/ n[1] = cwd) THEN n ELSE <<>>

\* cd_command that falls back to the root directory when the target fails
cd_command_fallback(args) ==
    IF Len(args) < 2
    THEN [Effect("cd_command") EXCEPT
             !.out = <<Line("cd: missing operand", <<>>)>>]
    ELSE LET path == args[2] IN
         IF set_current_dir(path) # <<>>
         THEN [Effect("cd_command") EXCEPT !.cwd = set_current_dir(path)[1]]
         ELSE [Effect("cd_command") EXCEPT
                  !.out = <<Line("cd: {}: No such file or directory", <<path>>)>>,
                  !.cwd = Root]

cd_command(args) ==
    IF Len(args) < 2
    THEN [Effect("cd_command") EXCEPT
             !.out = <<Line("cd: missing operand", <<>>)>>]
    ELSE LET path == args[2] IN
         IF set_current_dir(path) # <<>>
         THEN [Effect("cd_command") EXCEPT !.cwd = set_current_dir(path)[1]]
         ELSE [Effect("cd_command") EXCEPT !.out =
                  <<Line("cd: {}: No such file or directory", <<path>>)>>]

\* Command::new(program), cmd.arg0(name), cmd.arg(arg)
Command_new(program) == [program |-> program, argv0 |-> program, args |-> <<>>]
arg0(cmd, name) == [cmd EXCEPT !.argv0 = name]
RECURSIVE add_args(_, _)
add_args(cmd, rest) ==
    IF rest = <<>> THEN cmd
    ELSE add_args([cmd EXCEPT !.args = Append(@, Head(rest))], Tail(rest))

build_command(executable_path, program, args) ==
    add_args(arg0(Command_new(executable_path), program), Tail(args))

\* execute_external_program that ends the shell when the spawn fails
execute_external_program_fatal(program, args) ==
    LET found == find_executable_in_path(program)
        base == [Effect("execute_external_program") EXCEPT
                    !.resolved = <<[name |-> program, path |-> found]>>]
    IN  IF found # <<>>
        THEN LET cmd == build_command(found[1], program, args)
                 status == cmd_status(cmd.program)
             IN  IF status.image # <<>>
                 THEN [base EXCEPT
                          !.spawn = <<cmd>>,
                          !.child = <<[image |-> status.image[1],
                                       argv0 |-> cmd.argv0,
                                       args |-> cmd.args]>>]
                 ELSE [base EXCEPT
                          !.spawn = <<cmd>>,
                          !.out = <<Line("Error executing {}: {}",
                                         <<program, status.err>>)>>,
                          !.exit = <<1>>]
        ELSE [base EXCEPT
                 !.out = <<Line("{}: command not found", <<program>>)>>]

execute_external_program(program, args) ==
    LET found == find_executable_in_path(program)
        base == [Effect("execute_external_program") EXCEPT
                    !.resolved = <<[name |-> program, path |-> found]>>]
    IN  IF found # <<>>
        THEN LET cmd == build_command(found[1], program, args)
                 status == cmd_status(cmd.program)
             IN  IF status.image # <<>>
                 THEN [base EXCEPT
                          !.spawn = <<cmd>>,
                          !.child = <<[image |-> status.image[1],
                                       argv0 |-> cmd.argv0,
                                       args |-> cmd.args]>>]
                 ELSE [base EXCEPT
                          !.spawn = <<cmd>>,
                          !.out = <<Line("Error executing {}: {}",
                                         <<program, status.err>>)>>]
        ELSE [base EXCEPT
                 !.out = <<Line("{}: command not found", <<program>>)>>]

\* type_command that asks the resolver before the registry
type_command_path_first(args) ==
    IF Len(args) < 2
    THEN [Effect("type_command") EXCEPT
             !.out = <<Line("type: missing operand", <<>>)>>]
    ELSE LET cmd == args[2]
             builtins == register_builtins
             found == find_executable_in_path(cmd)
             base == [Effect("type_command") EXCEPT
                         !.resolved = <<[name |-> cmd, path |-> found]>>]
         IN  IF found # <<>>
             THEN [base EXCEPT
                      !.out = <<Line("{} is {}", <<cmd, found[1]>>)>>]
             ELSE IF cmd \in DOMAIN builtins
             THEN [base EXCEPT
                      !.out = <<Line("{} is a shell builtin", <<cmd>>)>>]
             ELSE [base EXCEPT
                      !.out = <<Line("{}: not found", <<cmd>>)>>]

\* type_command that returns silently when its operand is missing
type_command_silent(args) ==
    IF Len(args) < 2
    THEN Effect("type_command")
    ELSE LET cmd == args[2]
             found == find_executable_in_path(cmd)
             base == [Effect("type_command") EXCEPT
                         !.resolved = <<[name |-> cmd, path |-> found]>>]
         IN  IF cmd \in DOMAIN register_builtins
             THEN [Effect("type_command") EXCEPT
                      !.out = <<Line("{} is a shell builtin", <<cmd>>)>>]
             ELSE IF found # <<>>
             THEN [base EXCEPT
                      !.out = <<Line("{} is {}", <<cmd, found[1]>>)>>]
             ELSE [base EXCEPT
                      !.out = <<Line("{}: not found", <<cmd>>)>>]

type_command(args) ==
    IF Len(args) < 2
    THEN [Effect("type_command") EXCEPT
             !.out = <<Line("type: missing operand", <<>>)>>]
    ELSE LET cmd == args[2]
             builtins == register_builtins
         IN  IF cmd \in DOMAIN builtins
             THEN [Effect("type_command") EXCEPT
                      !.out = <<Line("{} is a shell builtin", <<cmd>>)>>]
             ELSE LET found == find_executable_in_path(cmd)
                      base == [Effect("type_command") EXCEPT
                                  !.resolved = <<[name |-> cmd, path |-> found]>>]
                  IN  IF found # <<>>
                      THEN [base EXCEPT
                               !.out = <<Line("{} is {}", <<cmd, found[1]>>)>>]
                      ELSE [base EXCEPT
                               !.out = <<Line("{}: not found", <<cmd>>)>>]

\* the call through the function pointer the registry holds
call_handler(handler, parts) ==
    CASE handler = "echo_command" -> echo_command(parts)
      [] handler = "exit_command" -> exit_command(parts)
      [] handler = "type_command" -> type_command(parts)
      [] handler = "pwd_command" -> pwd_command(parts)
      [] handler = "cd_command" -> cd_command(parts)

\* execute_command that asks the resolver before the registry
execute_command_path_first(builtins, parts) ==
    IF find_executable_in_path(parts[1]) # <<>>
    THEN execute_external_program(parts[1], parts)
    ELSE IF parts[1] \in DOMAIN builtins
    THEN call_handler(builtins[parts[1]], parts)
    ELSE execute_external_program(parts[1], parts)

execute_command(builtins, parts) ==
    IF parts[1] \in DOMAIN builtins
    THEN call_handler(builtins[parts[1]], parts)
    ELSE execute_external_program(parts[1], parts)

(***************************************************************************)
(* The lines standard input may hold.                                      *)
(***************************************************************************)
ArgTokens == {<<"a">>, <<"b", "c">>}

ArgLists == UNION {[1..k -> ArgTokens] : k \in 0..MaxArgs}

ExitArgs ==
    { <<"7">>, <<"+", "7">>, <<"-", "1">>, <<"2", "5", "6">>,
      <<"a", "b", "c">>, <<"-">>,
      <<"2", "1", "4", "7", "4", "8", "3", "6", "4", "7">>,
      <<"2", "1", "4", "7", "4", "8", "3", "6", "4", "8">>,
      <<"-", "2", "1", "4", "7", "4", "8", "3", "6", "4", "8">>,
      <<"-", "2", "1", "4", "7", "4", "8", "3", "6", "4", "9">> }

CommandNames == {echo, type, cd, <<"f">>, <<"z">>}

CdArgs ==
    { <<"/", "a">>, <<"b">>, <<".", ".">>, <<"/", "q">>,
      <<"/", "n">>, <<"/", "p", "/", "f">>, <<"a", "/">> }

CommandLines ==
    {<<echo>> \o as : as \in ArgLists}
    \cup {<<exit>>, <<exit, <<"7">>, <<"a">> >>}
    \cup {<<exit, n>> : n \in ExitArgs}
    \cup {<<type>>}
    \cup {<<type, c>> : c \in CommandNames}
    \cup {<<pwd>>}
    \cup {<<cd>>, <<cd, <<"/", "a">>, <<"/", "p">> >>}
    \cup {<<cd, d>> : d \in CdArgs}
    \cup {<<<<"f">>>> \o as : as \in ArgLists}
    \cup {<< <<"z">> >>}

Lines ==
    {join(ts, <<" ">>) \o <<"\n">> : ts \in CommandLines}
    \cup { <<"\n">>, <<" ", "\t", "\n">>, <<"p", "w", "d">>,
           <<" ", "f", " ", " ", "a", "\t", "\r", "\n">> }

(***************************************************************************)
(* The state machine of run_shell.                                         *)
(***************************************************************************)
PanicExitCode == 101

Event(kind) ==
    [event |-> kind, line |-> <<>>, parts |-> <<>>, handler |-> "",
     resolved |-> <<>>, spawn |-> <<>>, launched |-> <<>>, cwd0 |-> cwd,
     after_cd |-> <<>>]

Init ==
    /\ pc = "read"
    /\ exit_code = <<>>
    /\ PATH \in PathValues
    /\ fs \in {f \in [Nodes -> {Absent, Dir(493), File(420), File(493)}] :
                   \A n \in Nodes : f[n] \in Variants(n)}
    /\ cwd \in {n \in Nodes : fs[n].kind = "dir"}
    /\ stdout = <<>>
    /\ last = Event("start")
    /\ child = <<>>

\* read_command_line: flushing the prompt fails and unwrap() panics
PromptPanics ==
    /\ pc = "read"
    /\ pc' = "exited"
    /\ exit_code' = <<PanicExitCode>>
    /\ stdout' = <<>>
    /\ last' = Event("flush_error")
    /\ UNCHANGED <<cwd, PATH, fs, child>>

\* read_command_line returns None: the loop breaks and main returns
shell_returns(kind) ==
    /\ pc = "read"
    /\ pc' = "exited"
    /\ exit_code' = <<0>>
    /\ stdout' = <<>>
    /\ last' = Event(kind)
    /\ UNCHANGED <<cwd, PATH, fs, child>>

\* read_line gives Ok(0)
EndOfInput == shell_returns("eof")

\* read_line gives Err(_)
ReadError == shell_returns("read_error")

\* the cd that the iteration before this one ran, kept for a pwd
cd_before(e) ==
    IF /\ e.handler = "pwd_command"
       /\ last.handler = "cd_command"
       /\ Len(last.parts) > 1
    THEN <<[arg |-> last.parts[2], from |-> last.cwd0, ok |-> stdout = <<>>]>>
    ELSE <<>>

\* the lines with their tokens
Inputs == [line \in Lines |-> parse_command(line)]

\* one iteration of the loop on a line that was read
run_shell(line) ==
    LET parts == Inputs[line] IN
    /\ pc = "read"
    /\ IF parts = <<>>
       THEN /\ pc' = "read"
            /\ stdout' = <<>>
            /\ last' = [Event("blank") EXCEPT !.line = line]
            /\ UNCHANGED <<exit_code, cwd, child>>
       ELSE LET e == execute_command(register_builtins, parts) IN
            /\ stdout' = e.out
            /\ cwd' = e.cwd
            /\ exit_code' = e.exit
            /\ child' = e.child
            /\ pc' = IF e.exit # <<>> THEN "exited"
                     ELSE IF e.child # <<>> THEN "wait"
                     ELSE "read"
            /\ last' = [Event("command") EXCEPT
                           !.line = line, !.parts = parts,
                           !.handler = e.handler, !.resolved = e.resolved,
                           !.spawn = e.spawn, !.launched = e.child,
                           !.after_cd = cd_before(e)]
    /\ UNCHANGED <<PATH, fs>>

ReadLine == \E line \in Lines : run_shell(line)

\* cmd.status() returns: the child has terminated
ChildExits ==
    /\ pc = "wait"
    /\ pc' = "read"
    /\ child' = <<>>
    /\ UNCHANGED <<exit_code, cwd, PATH, fs, stdout, last>>

\* another process changes a node between two iterations
FileSystemChanges ==
    /\ pc = "read"
    /\ \E n \in Nodes : \E v \in Variants(n) :
          /\ v # fs[n]
          /\ fs[n].kind = "dir" => v.kind = "absent"
          /\ fs' = [fs EXCEPT ![n] = v]
    /\ stdout' = <<>>
    /\ last' = Event("env")
    /\ UNCHANGED <<pc, exit_code, cwd, PATH, child>>

Next ==
    \/ PromptPanics
    \/ EndOfInput
    \/ ReadError
    \/ ReadLine
    \/ ChildExits
    \/ FileSystemChanges

Spec == Init /\ [][Next]_vars

(***************************************************************************)
(* Vocabulary of the properties.                                           *)
(***************************************************************************)
IsCommand == last.event = "command"
Ran(handler) == IsCommand /\ last.handler = handler
BuiltinNames == {echo, exit, type, pwd, cd}

\* C1: whenever the first token of a command line is one of echo, exit,
\* type, pwd, cd, the handler of that builtin runs, nothing is spawned, and
\* the resolver is not asked about the command name (the only lookup a
\* builtin makes is type's lookup of its operand, never of a builtin name),
\* whatever PATH holds.
C1_BuiltinShadowsExternal ==
    (IsCommand /\ last.parts[1] \in BuiltinNames) =>
        /\ last.handler =
              (CASE last.parts[1] = echo -> "echo_command"
                 [] last.parts[1] = exit -> "exit_command"
                 [] last.parts[1] = type -> "type_command"
                 [] last.parts[1] = pwd -> "pwd_command"
                 [] last.parts[1] = cd -> "cd_command")
        /\ last.spawn = <<>>
        /\ child = <<>>
        /\ pc # "wait"
        /\ \A i \in 1..Len(last.resolved) :
              /\ last.resolved[i].name \notin BuiltinNames
              /\ last.parts[1] = type
              /\ last.resolved[i].name = last.parts[2]

\* echo ran as the builtin although PATH leads to an executable named echo
C1_Witness ==
    /\ Ran("echo_command")
    /\ last.parts[1] = echo
    /\ find_executable_in_path(echo) # <<>>
    /\ stdout = <<Line("{}", <<<<"a", " ", "b", "c">>>>)>>

\* one of the execute bits for owner, group or other is set
SomeExecuteBit(mode) ==
    \/ mode % 2 = 1
    \/ (mode \div 8) % 2 = 1
    \/ (mode \div 64) % 2 = 1

\* the PATH entries, the candidate of entry i, and whether it is eligible
PathEntries == split(path_var, ":")
Candidate(i, name) == path_join(PathEntries[i], name)
Eligible(i, name) ==
    \E n \in Nodes :
        /\ Lookup(Candidate(i, name), cwd) = <<n>>
        /\ fs[n].kind # "absent"
        /\ SomeExecuteBit(fs[n].mode)

\* C2: every call of find_executable_in_path returns the candidate of the
\* leftmost PATH entry whose candidate exists and has one of the execute
\* bits (owner, group, other) set, and None exactly when no entry has one.
C2_LeftmostExecutable ==
    \A k \in 1..Len(last.resolved) :
        LET name == last.resolved[k].name
            found == last.resolved[k].path
        IN  /\ found = <<>> <=>
                  \A i \in 1..Len(PathEntries) : ~Eligible(i, name)
            /\ found # <<>> =>
                  \E i \in 1..Len(PathEntries) :
                      /\ Eligible(i, name)
                      /\ \A j \in 1..(i - 1) : ~Eligible(j, name)
                      /\ found = <<Candidate(i, name)>>

\* /p/f exists without an execute bit and is skipped for /q/f
C2_Witness ==
    /\ last.resolved # <<>>
    /\ PATH = << <<"/", "p", "/", ":", "/", "q">> >>
    /\ fs[<< <<"p">>, <<"f">> >>] = File(420)
    /\ last.resolved[1].name = <<"f">>
    /\ last.resolved[1].path = << <<"/", "q", "/", "f">> >>

\* C3 as amended: the process has ended exactly when the latest event is
\* the exit builtin, end of input, a failed read of standard input or a
\* failed flush of the prompt; the initial state, a blank line and every
\* other command (whatever it printed, whether its spawn failed or not)
\* leave the shell running, at the prompt or waiting for its child.
C3_TerminationCauses ==
    /\ pc = "exited" <=>
          \/ last.event \in {"eof", "read_error", "flush_error"}
          \/ IsCommand /\ last.parts[1] = exit
    /\ pc \in {"read", "wait", "exited"}
    /\ pc = "wait" <=> child # <<>>
    /\ pc = "wait" => ENABLED ChildExits
    /\ pc = "exited" <=> exit_code # <<>>

\* a spawn failed and the shell is back at the prompt
C3_Witness ==
    /\ Ran("execute_external_program")
    /\ last.spawn # <<>>
    /\ stdout # <<>>
    /\ pc = "read"

\* C3 as stated: the process has ended only through exit or end of input
C3_Original ==
    pc = "exited" => \/ IsCommand /\ last.parts[1] = exit
                     \/ last.event = "eof"

\* C4: while a child runs, the file it executes is the file the resolved
\* path names, its argv[0] is the first token as typed, its arguments are
\* the remaining tokens in order, and the shell is blocked waiting for it.
C4_ChildAtResolvedPath ==
    child # <<>> =>
        /\ Ran("execute_external_program")
        /\ last.resolved[1].path # <<>>
        /\ <<child[1].image>> = Lookup(last.resolved[1].path[1], cwd)
        /\ child[1].argv0 = last.parts[1]
        /\ child[1].args = Tail(last.parts)
        /\ pc = "wait"

(***************************************************************************)
(* Decimal notation, read independently of parse_i32: a token is a signed  *)
(* integer when it is an optional sign followed by digits; its canonical   *)
(* form drops "+" and leading zeros.                                       *)
(***************************************************************************)
Unsigned(tok) ==
    IF tok # <<>> /\ tok[1] \in {"+", "-"} THEN Tail(tok) ELSE tok

IsSignedInteger(tok) ==
    /\ Unsigned(tok) # <<>>
    /\ \A i \in 1..Len(Unsigned(tok)) : IsDigit(Unsigned(tok)[i])

RECURSIVE StripZeros(_)
StripZeros(ds) ==
    IF Len(ds) > 1 /\ ds[1] = "0" THEN StripZeros(Tail(ds)) ELSE ds

Canonical(tok) ==
    LET ds == StripZeros(Unsigned(tok)) IN
    IF tok[1] = "-" /\ ds # <<"0">> THEN <<"-">> \o ds ELSE ds

\* a <= b for digit strings without leading zeros
RECURSIVE DigitsLeq(_, _)
DigitsLeq(a, b) ==
    IF Len(a) # Len(b) THEN Len(a) < Len(b)
    ELSE IF a = <<>> THEN TRUE
    ELSE IF a[1] # b[1] THEN DigitVal(a[1]) < DigitVal(b[1])
    ELSE DigitsLeq(Tail(a), Tail(b))

\* -2^31 <= the integer tok denotes <= 2^31 - 1
FitsI32(tok) ==
    IF tok[1] = "-"
    THEN DigitsLeq(StripZeros(Unsigned(tok)),
                   <<"2", "1", "4", "7", "4", "8", "3", "6", "4", "8">>)
    ELSE DigitsLeq(StripZeros(Unsigned(tok)),
                   <<"2", "1", "4", "7", "4", "8", "3", "6", "4", "7">>)

\* the decimal notation of a 32-bit integer
RECURSIVE NatDecimal(_)
NatDecimal(n) ==
    IF n < 10 THEN <<Digits[n + 1]>>
    ELSE NatDecimal(n \div 10) \o <<Digits[(n % 10) + 1]>>

Decimal(n) ==
    IF n >= 0 THEN NatDecimal(n)
    ELSE LET d == (10 - (n % 10)) % 10
         IN  <<"-">> \o (IF (n + d) \div 10 = 0 THEN <<>>
                         ELSE NatDecimal(-((n + d) \div 10)))
                     \o <<Digits[d + 1]>>

\* C5 as amended: an exit command line ends the process at once (no child,
\* no further step), with code 0 without an argument, with code N when the
\* first argument is a signed integer N that fits 32 bits, and with code 1
\* when the first argument is anything else, an integer outside the 32-bit
\* range included.
C5_ExitCode ==
    (IsCommand /\ last.parts[1] = exit) =>
        /\ pc = "exited"
        /\ child = <<>>
        /\ stdout = <<>>
        /\ ~ENABLED Next
        /\ Len(exit_code) = 1
        /\ Len(last.parts) = 1 => exit_code = <<0>>
        /\ Len(last.parts) > 1 =>
              IF IsSignedInteger(last.parts[2]) /\ FitsI32(last.parts[2])
              THEN Decimal(exit_code[1]) = Canonical(last.parts[2])
              ELSE exit_code = <<1>>

\* exit 2147483648 ended the process with code 1
C5_Witness ==
    /\ Ran("exit_command")
    /\ last.parts = <<exit, <<"2", "1", "4", "7", "4", "8", "3", "6", "4", "8">> >>
    /\ pc = "exited"
    /\ exit_code = <<1>>

\* C5 as stated: whatever signed integer N is given, the exit code is N
C5_Original ==
    (IsCommand /\ last.parts[1] = exit /\ Len(last.parts) > 1
              /\ IsSignedInteger(last.parts[2])) =>
        /\ pc = "exited"
        /\ Decimal(exit_code[1]) = Canonical(last.parts[2])

\* the path names no directory that can be entered from directory from
CannotEnter(path, from) ==
    ~\E n \in Nodes : Lookup(path, from) = <<n>> /\ Kind(n) = "dir"

\* what a pwd issued in the current state prints
PwdPrints == pwd_command(<<pwd>>).out

\* C6: a step that runs cd on a target that cannot be entered prints
\* "cd: <path>: No such file or directory" and nothing else, leaves the
\* working directory and what pwd prints as they were, and leaves the shell
\* at the prompt.
C6_FailedCdKeepsDirectory ==
    [][ ( /\ pc = "read"
          /\ last'.event = "command"
          /\ last'.parts[1] = cd
          /\ Len(last'.parts) > 1
          /\ CannotEnter(last'.parts[2], cwd) )
        => ( /\ stdout' = <<Line("cd: {}: No such file or directory",
                                 <<last'.parts[2]>>)>>
             /\ cwd' = cwd
             /\ PwdPrints' = PwdPrints
             /\ pc' = "read"
             /\ exit_code' = <<>> ) ]_vars

\* cd /p/f (a file) failed in /a/b and the shell is still there
C6_Witness ==
    /\ Ran("cd_command")
    /\ last.parts = <<cd, <<"/", "p", "/", "f">> >>
    /\ stdout = <<Line("cd: {}: No such file or directory",
                       <<<<"/", "p", "/", "f">>>>)>>
    /\ cwd = << <<"a">>, <<"b">> >>
    /\ last.cwd0 = cwd
    /\ pc = "read"

\* a pwd that ran right after a cd that entered a directory printed the
\* absolute path of that directory: a path from the root that names the
\* directory the cd's operand named from where the cd ran
PwdAfterCd ==
    ( /\ Ran("pwd_command")
      /\ last.after_cd # <<>>
      /\ last.after_cd[1].ok ) =>
        \E n \in Nodes :
            /\ Lookup(last.after_cd[1].arg, last.after_cd[1].from) = <<n>>
            /\ Len(stdout) = 1
            /\ stdout[1].fmt = "{}"
            /\ stdout[1].args[1][1] = "/"
            /\ Lookup(stdout[1].args[1], Root) = <<n>>
            /\ stdout[1].args[1] = AbsolutePath(n)

\* a blank line or a command that is no successful cd leaves what pwd
\* prints as it was
OthersKeepPwd ==
    ( /\ last'.event \in {"blank", "command"}
      /\ ~( /\ last'.parts # <<>>
            /\ last'.parts[1] = cd
            /\ Len(last'.parts) > 1
            /\ ~CannotEnter(last'.parts[2], cwd) ) )
    => PwdPrints' = PwdPrints

\* C7: a cd to a valid directory, absolute or relative, followed at once by
\* pwd prints the absolute path of that directory, and no command other
\* than a successful cd changes what pwd prints.
C7_PwdFollowsCd == [][PwdAfterCd' /\ OthersKeepPwd]_vars

\* cd b in /a, then pwd printed /a/b
C7_Witness ==
    /\ Ran("pwd_command")
    /\ last.after_cd =
          <<[arg |-> <<"b">>, from |-> << <<"a">> >>, ok |-> TRUE]>>
    /\ stdout = <<Line("{}", <<<<"/", "a", "/", "b">>>>)>>

(***************************************************************************)
(* The user input errors.                                                  *)
(***************************************************************************)
MissingOperand == IsCommand /\ last.parts \in {<<cd>>, <<type>>}

UnparsableExitCode ==
    /\ IsCommand
    /\ last.parts[1] = exit
    /\ Len(last.parts) > 1
    /\ ~(IsSignedInteger(last.parts[2]) /\ FitsI32(last.parts[2]))

UnknownCommand ==
    /\ IsCommand
    /\ last.parts[1] \notin BuiltinNames
    /\ \A i \in 1..Len(PathEntries) : ~Eligible(i, last.parts[1])

UnresolvableCd ==
    /\ IsCommand
    /\ last.parts[1] = cd
    /\ Len(last.parts) > 1
    /\ CannotEnter(last.parts[2], last.cwd0)

\* C8 as amended: a missing operand of cd or type, an unknown command and
\* an unresolvable cd target each print their one diagnostic line and leave
\* the shell at the prompt; an unparsable exit code prints nothing and ends
\* the process with code 1.
C8_InputErrors ==
    /\ MissingOperand =>
          /\ stdout = <<Line(IF last.parts[1] = cd THEN "cd: missing operand"
                             ELSE "type: missing operand", <<>>)>>
          /\ pc = "read" /\ exit_code = <<>>
    /\ UnknownCommand =>
          /\ stdout = <<Line("{}: command not found", <<last.parts[1]>>)>>
          /\ pc = "read" /\ exit_code = <<>>
    /\ UnresolvableCd =>
          /\ stdout = <<Line("cd: {}: No such file or directory",
                             <<last.parts[2]>>)>>
          /\ pc = "read" /\ exit_code = <<>>
    /\ UnparsableExitCode =>
          /\ stdout = <<>>
          /\ pc = "exited" /\ exit_code = <<1>>

\* type without an operand printed its diagnostic; the shell prompts again
C8_Witness ==
    /\ MissingOperand
    /\ last.parts = <<type>>
    /\ stdout = <<Line("type: missing operand", <<>>)>>
    /\ pc = "read"

\* C8 as stated: every user input error prints a diagnostic line and leaves
\* the shell running at the prompt
C8_Original ==
    (MissingOperand \/ UnparsableExitCode \/ UnknownCommand \/ UnresolvableCd)
        => (Len(stdout) >= 1 /\ pc = "read")

\* the failure paths
SpawnFailed == IsCommand /\ last.spawn # <<>> /\ last.launched = <<>>
PwdFailed == Ran("pwd_command") /\ Kind(cwd) # "dir"
ResolutionFailed ==
    /\ IsCommand
    /\ last.resolved # <<>>
    /\ last.resolved[1].path = <<>>

\* C9: every failure path prints exactly one line: a failed resolution, a
\* failed spawn, a failure to query or to change the working directory, a
\* missing operand, and a failed read of standard input.
C9_OneLinePerFailure ==
    ( \/ ResolutionFailed
      \/ SpawnFailed
      \/ PwdFailed
      \/ UnresolvableCd
      \/ MissingOperand
      \/ last.event = "read_error" ) => Len(stdout) = 1

\* what dispatching the one-token command line NAME does in this state
Dispatched(name) == execute_command(register_builtins, <<name>>)

\* C10 as amended: after type NAME, in the state type ran in: type printed
\* "NAME is a shell builtin" exactly when dispatching NAME runs a builtin
\* handler, "NAME is P" exactly when dispatching NAME resolves it to P and
\* hands P to the launcher (whose spawn may still fail), and
\* "NAME: not found" exactly when dispatching NAME prints
\* "NAME: command not found".
C10_TypeAgreesWithDispatch ==
    (Ran("type_command") /\ Len(last.parts) > 1) =>
        LET name == last.parts[2]
            d == Dispatched(name)
        IN  /\ Len(stdout) = 1
            /\ stdout[1].fmt \in {"{} is a shell builtin", "{} is {}",
                                  "{}: not found"}
            /\ stdout[1].args[1] = name
            /\ stdout[1].fmt = "{} is a shell builtin" <=>
                  d.handler \in {"echo_command", "exit_command",
                                 "type_command", "pwd_command", "cd_command"}
            /\ stdout[1].fmt = "{} is {}" <=>
                  (d.handler = "execute_external_program" /\ d.spawn # <<>>)
            /\ stdout[1].fmt = "{} is {}" =>
                  stdout[1].args[2] = d.spawn[1].program
            /\ stdout[1].fmt = "{}: not found" <=>
                  d.out = <<Line("{}: command not found", <<name>>)>>

\* type f printed "f is /q/f" where /q/f is a directory no spawn can run
C10_Witness ==
    /\ Ran("type_command")
    /\ stdout = <<Line("{} is {}", <<<<"f">>, <<"/", "q", "/", "f">>>>)>>
    /\ Dispatched(<<"f">>).spawn # <<>>
    /\ Dispatched(<<"f">>).child = <<>>

\* C10 as stated: type prints "NAME is P" exactly when dispatching NAME
\* launches the executable at path P
C10_Original ==
    (Ran("type_command") /\ Len(last.parts) > 1) =>
        LET d == Dispatched(last.parts[2])
        IN  (Len(stdout) = 1 /\ stdout[1].fmt = "{} is {}") <=>
                /\ d.child # <<>>
                /\ <<d.child[1].image>> = Lookup(stdout[1].args[2], cwd)

====
